---- MODULE Spec2Model ----
(***************************************************************************)
(* Model of the polygenic-score pipeline:                                  *)
(*   calculate_pgs               (src/pgs_calculator.py)                   *)
(*   extract_pgs_snps_to_dataset (src/snp_extractor.py)                    *)
(* All table cells are strings, as in the flat files the code reads; a     *)
(* missing cell is pandas' NaN.  The external tool (plink) is a black box: *)
(* what it returns for a scoring file is part of the input.                *)
(***************************************************************************)
EXTENDS Integers, Sequences, FiniteSets, TLC

VARIABLES
    call,           \* the function the caller invoked
    bim_exists,     \* {plink_file_path}.bim is on disk
    fam_exists,     \* {plink_file_path}.fam is on disk
    bim_data,       \* rows of the .bim file: [chr, rsID, pos]
    fam_data,       \* rows of the .fam file: [FID, IID, PHENOTYPE]
    pgs_files,      \* the scoring files, in glob order, with plink's answer to each
    raw,            \* rows of the .raw file plink --recode A would produce
    output_csv_path,\* calculate_pgs: the path of the output file, as its components
    output_dir,     \* extract_pgs_snps_to_dataset: the output directory, as its components
    pc,             \* position in the function
    i,              \* index of the scoring file the loop is at
    snps,           \* set(bim_data['rsID'])
    pos_dict,       \* "chr{chr}:{pos}" -> rsID
    profile_files,  \* names of the .profile files collected by the loop
    weight_files,   \* temp_dir/{name}_weights.txt : name -> rows
    profiles,       \* temp_dir/{name}.profile     : name -> rows
    snp_list,       \* output_dir/snp_list.txt, when written
    log,            \* per scoring file: what was computed and printed
    output_csv,     \* the output file, when written
    result          \* what the caller gets

vars == <<call, bim_exists, fam_exists, bim_data, fam_data, pgs_files, raw,
          output_csv_path, output_dir, pc, i,
          snps, pos_dict, profile_files, weight_files, profiles, snp_list, log,
          output_csv, result>>

---------------------------------------------------------------------------
(* Bounds of the exploration *)
MaxDefs == 2        \* scoring files in the folder
MaxRows == 2        \* rows of one scoring file
MaxSamples == 2     \* rows of a pedigree

NaN == "NaN"

Range(s) == {s[j] : j \in DOMAIN s}
SeqsUpTo(S, n) == UNION {[1..k -> S] : k \in 0..n}
TablesUpTo(S, n) == UNION {[1..k -> S] : k \in 1..n}
Distinct(s) == \A j, k \in DOMAIN s : j # k => s[j] # s[k]
Get(d, x, default) == IF x \in DOMAIN d THEN d[x] ELSE default

RECURSIVE Flatten(_)
Flatten(ss) == IF ss = <<>> THEN <<>> ELSE Head(ss) \o Flatten(Tail(ss))

---------------------------------------------------------------------------
(* Identifier normalisation and matching, pgs_calculator.py 33-37, 59-100 *)

PosId(chr, pos) == "chr" \o chr \o ":" \o pos

Snps(bim) == {bim[j].rsID : j \in DOMAIN bim}

LastRow(bim, p) ==
    CHOOSE j \in DOMAIN bim :
        /\ PosId(ToString(bim[j].chr), ToString(bim[j].pos)) = p
        /\ \A k \in DOMAIN bim :
              PosId(ToString(bim[k].chr), ToString(bim[k].pos)) = p => k <= j

PosDict(bim) ==
    [p \in {PosId(ToString(bim[j].chr), ToString(bim[j].pos)) : j \in DOMAIN bim}
        |-> bim[LastRow(bim, p)].rsID]

IsRsidBased(columns) == "rsID" \in columns
IsPositionBased(columns) == "chr_name" \in columns /\ "chr_position" \in columns
MissingColumns(columns) == {"effect_allele", "effect_weight"} \ columns

NormalizedRsID(columns, rows, pd) ==
    IF ~IsRsidBased(columns) /\ IsPositionBased(columns)
    THEN [j \in DOMAIN rows |->
            LET x == PosId(rows[j].chr_name, rows[j].chr_position)
            IN  Get(pd, x, x)]
    ELSE [j \in DOMAIN rows |-> rows[j].rsID]

CommonSnps(rsID, panel_ids) == Range(rsID) \cap panel_ids

\* The arithmetic of line 84 is on IEEE-754 doubles.  A positive double is
\* [bits, exp]: the integer whose binary digits are bits, most significant
\* first, times 2^exp; every operation rounds its exact result to Precision
\* significant digits, to nearest, ties to even.
Precision == 53

RECURSIVE BitsPlusOne(_)
BitsPlusOne(bits) ==
    IF bits = <<>> THEN <<1>>
    ELSE IF bits[Len(bits)] = 0 THEN [bits EXCEPT ![Len(bits)] = 1]
    ELSE Append(BitsPlusOne(SubSeq(bits, 1, Len(bits) - 1)), 0)

RECURSIVE BitsValue(_, _)
BitsValue(bits, acc) ==
    IF bits = <<>> THEN acc ELSE BitsValue(Tail(bits), 2 * acc + Head(bits))

\* the digits of k times the integer of digits bits[1..j], carry added
RECURSIVE BitsTimes(_, _, _, _, _)
BitsTimes(bits, k, j, carry, out) ==
    IF j = 0
    THEN IF carry = 0 THEN out
         ELSE BitsTimes(bits, k, 0, carry \div 2, <<carry % 2>> \o out)
    ELSE LET v == k * bits[j] + carry
         IN  BitsTimes(bits, k, j - 1, v \div 2, <<v % 2>> \o out)

RoundToPrecision(bits, exp) ==
    IF Len(bits) <= Precision THEN [bits |-> bits, exp |-> exp]
    ELSE LET kept == SubSeq(bits, 1, Precision)
             rest == SubSeq(bits, Precision + 1, Len(bits))
             up   == /\ rest[1] = 1
                     /\ \/ \E j \in 2..Len(rest) : rest[j] = 1
                        \/ kept[Precision] = 1
         IN  [bits |-> IF up THEN BitsPlusOne(kept) ELSE kept, exp |-> exp + Len(rest)]

\* n / d = (r / t) * 2^e with t <= r < 2t
RECURSIVE Normalised(_, _, _)
Normalised(n, d, e) ==
    IF n < d THEN Normalised(2 * n, d, e - 1)
    ELSE IF n >= 2 * d THEN Normalised(n, 2 * d, e + 1)
    ELSE [r |-> n, t |-> d, e |-> e]

\* the first digits of r / t by long division; rem is twice the remainder
RECURSIVE QuotientBits(_, _, _, _)
QuotientBits(r, t, n, bits) ==
    IF n = 0 THEN [bits |-> bits, rem |-> r]
    ELSE IF r >= t THEN QuotientBits(2 * (r - t), t, n - 1, Append(bits, 1))
    ELSE QuotientBits(2 * r, t, n - 1, Append(bits, 0))

\* float(n) / float(d) for positive integers
FloatDivide(n, d) ==
    LET m  == Normalised(n, d, 0)
        q  == QuotientBits(m.r, m.t, Precision, <<>>)
        up == q.rem > m.t \/ (q.rem = m.t /\ q.bits[Precision] = 1)
    IN  [bits |-> IF up THEN BitsPlusOne(q.bits) ELSE q.bits,
         exp  |-> m.e - (Precision - 1)]

\* x * k for a small positive integer k
FloatTimes(x, k) == RoundToPrecision(BitsTimes(x.bits, k, Len(x.bits), 0, <<>>), x.exp)

\* f"{x:.2f}" as a number of hundredths: the exact value of the double,
\* rounded to two decimals, ties to even
Format2f(x) ==
    LET b == BitsTimes(x.bits, 100, Len(x.bits), 0, <<>>)
        n == Len(b)
        s == 0 - x.exp
    IN  IF s <= 0 THEN BitsValue(b \o [j \in 1..(0 - s) |-> 0], 0)
        ELSE IF s > n THEN 0
        ELSE LET q  == BitsValue(SubSeq(b, 1, n - s), 0)
                 up == /\ b[n - s + 1] = 1
                       /\ \/ \E j \in (n - s + 2)..n : b[j] = 1
                          \/ q % 2 = 1
             IN  IF up THEN q + 1 ELSE q

\* f"{common/total*100:.2f}", in hundredths of a percent.  Away from a tie
\* the exact quotient is at least 1/(2 total) from the half-way point, further
\* than the rounding error of the two operations can carry the double, so the
\* nearest hundredth of the quotient is the one printed; at a tie the digits
\* of the double decide.
CoveragePercent(common, total) ==
    LET q == (10000 * common) \div total
        r == (10000 * common) % total
    IN  IF 2 * r < total THEN q
        ELSE IF 2 * r > total THEN q + 1
        ELSE Format2f(FloatTimes(FloatDivide(common, total), 100))


\* pgs_data with the rsID column replaced by the normalised identifiers
WithRsID(rows, rsID) == [j \in DOMAIN rows |-> [rows[j] EXCEPT !.rsID = rsID[j]]]

\* a filter that keeps one row per identifier
FilteredPgsFirstOnly(pgs_data, common) ==
    LET keep == {j \in DOMAIN pgs_data :
                    /\ pgs_data[j].rsID \in common
                    /\ \A k \in 1..(j - 1) : pgs_data[k].rsID # pgs_data[j].rsID}
        RECURSIVE Pick(_)
        Pick(j) == IF j > Len(pgs_data) THEN <<>>
                   ELSE (IF j \in keep THEN <<pgs_data[j]>> ELSE <<>>) \o Pick(j + 1)
    IN  Pick(1)

\* pgs_data[pgs_data['rsID'].isin(common_snps)]
FilteredPgs(pgs_data, common) == SelectSeq(pgs_data, LAMBDA r : r.rsID \in common)

\* the rows written under the "SNP A1 WEIGHT" header
WeightRows(filtered_pgs) ==
    [j \in DOMAIN filtered_pgs |->
        <<filtered_pgs[j].rsID, filtered_pgs[j].effect_allele, filtered_pgs[j].effect_weight>>]

\* One iteration of the loop over the scoring files: what it computes, as a
\* record.  outcome names the branch the iteration left by.
Skipped(outcome) == [outcome |-> outcome, rsID |-> <<>>, coverage |-> <<>>, weights |-> <<>>]

\* an iteration that scores a file whatever its overlap with the panel
ProcessFileAnyOverlap(f, panel_ids, pd) ==
    LET rsID     == NormalizedRsID(f.columns, f.rows, pd)
        common   == CommonSnps(rsID, panel_ids)
        total    == Len(f.rows)
        coverage == CoveragePercent(Cardinality(common), total)
        filtered == FilteredPgs(WithRsID(f.rows, rsID), common)
    IN  IF ~f.readable THEN Skipped("Exception")
        ELSE IF ~IsRsidBased(f.columns) /\ ~IsPositionBased(f.columns)
            THEN Skipped("UnresolvableIdentifierScheme")
        ELSE IF MissingColumns(f.columns) # {}
            THEN Skipped("MissingRequiredColumns")
        ELSE IF total = 0
            THEN Skipped("Exception")
        ELSE [outcome  |-> IF f.returncode = 0 THEN "Scored" ELSE "ExternalScorerFailure",
              rsID     |-> rsID,
              coverage |-> <<coverage>>,
              weights  |-> <<WeightRows(filtered)>>]

ProcessFile(f, panel_ids, pd) ==
    LET rsID     == NormalizedRsID(f.columns, f.rows, pd)
        common   == CommonSnps(rsID, panel_ids)
        total    == Len(f.rows)
        coverage == CoveragePercent(Cardinality(common), total)
        filtered == FilteredPgs(WithRsID(f.rows, rsID), common)
    IN  IF ~f.readable THEN Skipped("Exception")
        ELSE IF ~IsRsidBased(f.columns) /\ ~IsPositionBased(f.columns)
            THEN Skipped("UnresolvableIdentifierScheme")
        ELSE IF MissingColumns(f.columns) # {}
            THEN Skipped("MissingRequiredColumns")
        ELSE IF total = 0
            THEN Skipped("Exception")        \* ZeroDivisionError at line 84
        ELSE IF common = {}
            THEN [outcome |-> "NoOverlap", rsID |-> rsID, coverage |-> <<coverage>>,
                  weights |-> <<>>]
        ELSE [outcome  |-> IF f.returncode = 0 THEN "Scored" ELSE "ExternalScorerFailure",
              rsID     |-> rsID,
              coverage |-> <<coverage>>,
              weights  |-> <<WeightRows(filtered)>>]

\* a loop that stops at the first file it cannot score
NextFileBreak(index, total, outcome) == IF outcome = "Scored" THEN index + 1 ELSE total + 1

\* for ... in pgs_files, every branch ending in `continue`
NextFile(index, total, outcome) == index + 1

\* profile_files.append(...) under result.returncode == 0
AppendProfile(files, name, outcome) ==
    IF outcome = "Scored" THEN Append(files, name) ELSE files

---------------------------------------------------------------------------
(* Aggregation, pgs_calculator.py 129-153 *)

\* df['SCORE'] assigned to a frame of n rows: aligned on the row index
ScoreColumn(df, n) == [j \in 1..n |-> IF j <= Len(df) THEN df[j].SCORE ELSE NaN]

Combined(files, tables) ==
    LET base_df == tables[files[1]]
    IN  [j \in DOMAIN base_df |->
            [FID    |-> base_df[j].FID,
             IID    |-> base_df[j].IID,
             scores |-> [name \in Range(files) |->
                            ScoreColumn(tables[name], Len(base_df))[j]]]]

SameKey(a, b) == a.FID = b.FID /\ a.IID = b.IID

WithPhenotype(row, phenotype) ==
    [FID |-> row.FID, IID |-> row.IID, scores |-> row.scores, PHENOTYPE |-> phenotype]

\* a join that keeps only the rows the pedigree has
MergeInner(combined, phenotype_data) ==
    Flatten([j \in DOMAIN combined |->
        LET matches == SelectSeq(phenotype_data, LAMBDA p : SameKey(p, combined[j]))
        IN  [m \in DOMAIN matches |-> WithPhenotype(combined[j], matches[m].PHENOTYPE)]])

\* pd.merge(combined, phenotype_data, on=['FID', 'IID'], how='left')
MergeLeft(combined, phenotype_data) ==
    Flatten([j \in DOMAIN combined |->
        LET matches == SelectSeq(phenotype_data, LAMBDA p : SameKey(p, combined[j]))
        IN  IF matches = <<>>
            THEN <<WithPhenotype(combined[j], NaN)>>
            ELSE [m \in DOMAIN matches |-> WithPhenotype(combined[j], matches[m].PHENOTYPE)]])

FeaturesX(files, merged) ==
    [columns |-> files, rows |-> [j \in DOMAIN merged |-> merged[j].scores]]
LabelsY(merged) == [j \in DOMAIN merged |-> merged[j].PHENOTYPE]

FinalDataset(files, merged) ==
    [columns |-> <<"FID", "IID">> \o files \o <<"y">>,
     rows    |-> [j \in DOMAIN merged |->
                    [FID    |-> merged[j].FID,
                     IID    |-> merged[j].IID,
                     scores |-> merged[j].scores,
                     y      |-> merged[j].PHENOTYPE]]]

\* os.path.dirname of a path given as its components: '' is <<>>
Dirname(path) == SubSeq(path, 1, Len(path) - 1)

\* os.makedirs(name, exist_ok=True) raises FileNotFoundError for the name ''
MakedirsRaises(name) == name = <<>>

\* what the caller gets
EmptyX     == [columns |-> <<>>, rows |-> <<>>]
Pending    == [kind |-> "pending", X |-> EmptyX, y |-> <<>>]
NoneNone   == [kind |-> "None", X |-> EmptyX, y |-> <<>>]
Raised     == [kind |-> "raised", X |-> EmptyX, y |-> <<>>]
Returned(X, y) == [kind |-> "Xy", X |-> X, y |-> y]

---------------------------------------------------------------------------
(* extract_pgs_snps_to_dataset, snp_extractor.py 8-134 *)

\* subprocess.run refuses stdout/stderr together with capture_output
SubprocessRun(capture_output, stdout, stderr, returncode) ==
    IF capture_output /\ (stdout # "None" \/ stderr # "None")
    THEN [raised |-> TRUE,  returncode |-> returncode]
    ELSE [raised |-> FALSE, returncode |-> returncode]

\* FID.astype(str) + '_' + IID.astype(str)
ID(row) == row.FID \o "_" \o row.IID

\* dict(zip(fam_data['ID'], fam_data['PHENOTYPE'])): the last row of an ID wins
PhenotypeDict(fam) ==
    [k \in {ID(fam[j]) : j \in DOMAIN fam} |->
        fam[CHOOSE j \in DOMAIN fam :
                /\ ID(fam[j]) = k
                /\ \A m \in DOMAIN fam : ID(fam[m]) = k => m <= j].PHENOTYPE]

\* genotypes['ID'].map(phenotype_dict)
LabelVector(genotypes, fam) ==
    [j \in DOMAIN genotypes |-> Get(PhenotypeDict(fam), ID(genotypes[j]), NaN)]

ExtractFailed(rsID, snp_file) ==
    [rsID |-> rsID, snp_list |-> snp_file, csv |-> <<>>, result |-> NoneNone]

\* line 19 is before the try: its exception reaches the caller
ExtractRaised == [rsID |-> <<>>, snp_list |-> <<>>, csv |-> <<>>, result |-> Raised]

ExtractPgsSnps(f, dir, bim_ok, bim, fam_ok, fam, genotypes, rc_extract, rc_recode) ==
    LET pd       == PosDict(bim)
        rsID     == NormalizedRsID(f.columns, f.rows, pd)
        pgs_snps == Range(rsID)
        common   == pgs_snps \cap Snps(bim)
        extract  == SubprocessRun(TRUE, "DEVNULL", "DEVNULL", rc_extract)
        recode   == SubprocessRun(TRUE, "DEVNULL", "DEVNULL", rc_recode)
        y        == LabelVector(genotypes, fam)
        X        == [columns |-> <<>>, rows |-> [j \in DOMAIN genotypes |-> genotypes[j].dosage]]
        full     == [j \in DOMAIN genotypes |->
                        [FID |-> genotypes[j].FID, IID |-> genotypes[j].IID,
                         dosage |-> genotypes[j].dosage, phenotype |-> y[j]]]
    IN  IF MakedirsRaises(dir) THEN ExtractRaised
        ELSE IF ~f.readable THEN ExtractFailed(<<>>, <<>>)
        ELSE IF ~IsRsidBased(f.columns) /\ ~IsPositionBased(f.columns)
            THEN ExtractFailed(<<>>, <<>>)
        ELSE IF ~bim_ok THEN ExtractFailed(<<>>, <<>>)
        ELSE IF pgs_snps = {} THEN ExtractFailed(rsID, <<>>)   \* ZeroDivisionError at line 64
        ELSE IF extract.raised THEN ExtractFailed(rsID, <<common>>)
        ELSE IF extract.returncode # 0 THEN ExtractFailed(rsID, <<common>>)
        ELSE IF recode.raised THEN ExtractFailed(rsID, <<common>>)
        ELSE IF recode.returncode # 0 THEN ExtractFailed(rsID, <<common>>)
        ELSE IF ~fam_ok THEN ExtractFailed(rsID, <<common>>)
        ELSE [rsID |-> rsID, snp_list |-> <<common>>, csv |-> <<full>>,
              result |-> Returned(X, y)]

---------------------------------------------------------------------------
(* Inputs *)

Names == <<"A", "B", "C", "D">>

Variant(chr, rsID, pos) == [chr |-> chr, rsID |-> rsID, pos |-> pos]
Panel == <<Variant(1, "rs1", 1), Variant(1, "rs2", 2)>>
Panels == {Panel,
           <<Variant(1, "rs1", 1), Variant(1, "rs2", 1)>>,
           <<Variant(1, "rs2", 2)>>}

Entries == [rsID : {"rs1", "rs9", NaN}, chr_name : {"1"}, chr_position : {"1", "3"},
            effect_allele : {"A"}, effect_weight : {"0.1", "0.2"}]

RsidColumns == {"rsID", "effect_allele", "effect_weight"}
PositionColumns == {"chr_name", "chr_position", "effect_allele", "effect_weight"}
ColumnSets == {RsidColumns, PositionColumns, RsidColumns \cup PositionColumns,
               {"effect_allele", "effect_weight"}, {"rsID", "effect_allele"},
               {"chr_name", "effect_allele", "effect_weight"}}

SampleKeys == {<<"a_", "a">>, <<"a", "_a">>}
Scores == {"0.5", "0.7"}
Phenotypes == {"1", "2"}

ProfileRows == {[FID |-> k[1], IID |-> k[2], SCORE |-> s] : k \in SampleKeys, s \in Scores}
ProfileTables == {t \in TablesUpTo(ProfileRows, MaxSamples) :
                    \A j, k \in DOMAIN t : j # k => ~SameKey(t[j], t[k])}

PedigreeRows(phenotypes) ==
    {[FID |-> k[1], IID |-> k[2], PHENOTYPE |-> p] : k \in SampleKeys, p \in phenotypes}
Pedigrees(phenotypes) == TablesUpTo(PedigreeRows(phenotypes), MaxSamples)

RawRows == {[FID |-> k[1], IID |-> k[2], dosage |-> <<"0">>] : k \in SampleKeys}
RawTables == {t \in TablesUpTo(RawRows, MaxSamples) : Distinct(t)}

Pedigree == <<[FID |-> "a_", IID |-> "a", PHENOTYPE |-> "1"],
              [FID |-> "a", IID |-> "_a", PHENOTYPE |-> "2"]>>
Profile  == <<[FID |-> "a_", IID |-> "a", SCORE |-> "0.5"],
              [FID |-> "a", IID |-> "_a", SCORE |-> "0.7"]>>

Raw      == <<[FID |-> "a_", IID |-> "a", dosage |-> <<"0">>],
              [FID |-> "a", IID |-> "_a", dosage |-> <<"0">>]>>

\* an output path with a directory part, and one without
OutputCsv == <<"out", "pgs_dataset.csv">>
OutputCsvPaths == {OutputCsv, <<"pgs_dataset.csv">>}
OutputDir == <<"out">>
OutputDirs == {OutputDir, <<>>}

File(name, readable, columns, rows, returncode, profile) ==
    [name |-> name, readable |-> readable, columns |-> columns, rows |-> rows,
     returncode |-> returncode, profile |-> profile]

Entry(rsID, chr_position) ==
    [rsID |-> rsID, chr_name |-> "1", chr_position |-> chr_position,
     effect_allele |-> "A", effect_weight |-> "0.1"]

\* a scoring file for each way an iteration of the loop can end
Unreadable(name)     == File(name, FALSE, RsidColumns, <<Entry("rs1", "1")>>, 0, <<>>)
NoScheme(name)       == File(name, TRUE, {"effect_allele", "effect_weight"},
                             <<Entry("rs1", "1")>>, 0, <<>>)
NoWeightColumn(name) == File(name, TRUE, {"rsID", "effect_allele"}, <<Entry("rs1", "1")>>, 0, <<>>)
NoRows(name)         == File(name, TRUE, RsidColumns, <<>>, 0, <<>>)
NoMatch(name)        == File(name, TRUE, RsidColumns, <<Entry("rs9", "3")>>, 0, <<>>)
ScorerFails(name)    == File(name, TRUE, RsidColumns, <<Entry("rs1", "1")>>, 1, <<>>)
ScoredAs(name, t)    == File(name, TRUE, RsidColumns, <<Entry("rs1", "1")>>, 0, t)

FailurePool(name) ==
    {Unreadable(name), NoScheme(name), NoWeightColumn(name), NoRows(name), NoMatch(name),
     ScorerFails(name), ScoredAs(name, Profile)}

\* every table plink may have produced, and one file that is dropped
TablePool(name) == {NoMatch(name)} \cup {ScoredAs(name, t) : t \in ProfileTables}

Folders(Pool(_)) ==
    UNION {{fs \in [1..k -> UNION {Pool(Names[n]) : n \in 1..k}] :
                \A j \in 1..k : fs[j].name = Names[j]} : k \in 0..MaxDefs}

Start ==
    /\ pc = "start" /\ i = 1 /\ snps = {} /\ pos_dict = <<>>
    /\ profile_files = <<>> /\ weight_files = <<>> /\ profiles = <<>>
    /\ snp_list = <<>> /\ log = <<>> /\ output_csv = <<>> /\ result = Pending

\* one scoring file with any rows and columns, against any panel
InitMatching ==
    /\ call \in {"calculate_pgs", "extract_pgs_snps_to_dataset"}
    /\ bim_exists = TRUE /\ bim_data \in Panels
    /\ fam_exists = TRUE /\ fam_data = Pedigree
    /\ \E columns \in ColumnSets, rows \in SeqsUpTo(Entries, MaxRows) :
          pgs_files = <<File(Names[1], TRUE, columns, rows, 0, Profile)>>
    /\ raw = IF call = "calculate_pgs" THEN <<>> ELSE Raw
    /\ output_csv_path = OutputCsv /\ output_dir = OutputDir

\* a folder of scoring files, each ending its iteration in any way
InitLoop ==
    /\ call = "calculate_pgs"
    /\ \/ bim_exists = TRUE /\ bim_data = Panel
       \/ bim_exists = FALSE /\ bim_data = <<>>
    /\ \/ fam_exists = TRUE /\ fam_data = Pedigree
       \/ fam_exists = FALSE /\ fam_data = <<>>
    /\ pgs_files \in Folders(FailurePool)
    /\ raw = <<>>
    /\ output_csv_path \in OutputCsvPaths /\ output_dir = OutputDir

\* a folder of scored files with any tables from plink, and any pedigree
InitAggregation ==
    /\ call = "calculate_pgs"
    /\ bim_exists = TRUE /\ bim_data = Panel
    /\ \/ fam_exists = TRUE /\ fam_data \in Pedigrees({"1"})
       \/ fam_exists = FALSE /\ fam_data = <<>>
    /\ pgs_files \in Folders(TablePool)
    /\ raw = <<>>
    /\ output_csv_path \in OutputCsvPaths /\ output_dir = OutputDir

\* one scoring file, any pedigree, any dosage table
InitExtraction ==
    /\ call = "extract_pgs_snps_to_dataset"
    /\ \/ bim_exists = TRUE /\ bim_data = Panel
       \/ bim_exists = FALSE /\ bim_data = <<>>
    /\ \/ fam_exists = TRUE /\ fam_data \in Pedigrees(Phenotypes)
       \/ fam_exists = FALSE /\ fam_data = <<>>
    /\ pgs_files \in {<<f>> : f \in FailurePool(Names[1])}
    /\ raw \in RawTables
    /\ output_csv_path = OutputCsv /\ output_dir \in OutputDirs

Init == Start /\ (InitMatching \/ InitLoop \/ InitAggregation \/ InitExtraction)

---------------------------------------------------------------------------
(* calculate_pgs *)

\* lines 21-41: the panel is read before any try block
LoadPanel ==
    /\ call = "calculate_pgs" /\ pc = "start"
    /\ IF bim_exists
       THEN /\ snps' = Snps(bim_data)
            /\ pos_dict' = PosDict(bim_data)
            /\ pc' = "loop"
            /\ UNCHANGED result
       ELSE /\ pc' = "raised"              \* FileNotFoundError reaches the caller
            /\ result' = Raised
            /\ UNCHANGED <<snps, pos_dict>>
    /\ UNCHANGED <<call, bim_exists, fam_exists, bim_data, fam_data, pgs_files, raw,
                   output_csv_path, output_dir, i,
                   profile_files, weight_files, profiles, snp_list, log, output_csv>>

\* lines 46-122: one iteration of the loop
ProcessDefinition ==
    /\ call = "calculate_pgs" /\ pc = "loop" /\ i <= Len(pgs_files)
    /\ LET f == pgs_files[i]
           r == ProcessFile(f, snps, pos_dict)
       IN  /\ log' = Append(log, [name |-> f.name, outcome |-> r.outcome,
                                  rsID |-> r.rsID, coverage |-> r.coverage,
                                  returncodes |-> <<f.returncode>>])
           /\ weight_files' = IF r.weights # <<>>
                              THEN (f.name :> r.weights[1]) @@ weight_files
                              ELSE weight_files
           /\ profiles' = IF r.outcome = "Scored"
                          THEN (f.name :> f.profile) @@ profiles
                          ELSE profiles
           /\ profile_files' = AppendProfile(profile_files, f.name, r.outcome)
           /\ i' = NextFile(i, Len(pgs_files), r.outcome)
    /\ UNCHANGED <<call, bim_exists, fam_exists, bim_data, fam_data, pgs_files, raw,
                   output_csv_path, output_dir, pc,
                   snps, pos_dict, snp_list, output_csv, result>>

\* lines 124-126
NoProfiles ==
    /\ call = "calculate_pgs" /\ pc = "loop" /\ i > Len(pgs_files)
    /\ profile_files = <<>>
    /\ pc' = "done"
    /\ result' = NoneNone
    /\ UNCHANGED <<call, bim_exists, fam_exists, bim_data, fam_data, pgs_files, raw,
                   output_csv_path, output_dir, i,
                   snps, pos_dict, profile_files, weight_files, profiles, snp_list, log,
                   output_csv>>

\* lines 129-169
Aggregate ==
    /\ call = "calculate_pgs" /\ pc = "loop" /\ i > Len(pgs_files)
    /\ profile_files # <<>>
    /\ pc' = "done"
    /\ IF fam_exists /\ ~MakedirsRaises(Dirname(output_csv_path))
       THEN LET combined == MergeLeft(Combined(profile_files, profiles), fam_data)
            IN  /\ output_csv' = <<FinalDataset(profile_files, combined)>>
                /\ result' = Returned(FeaturesX(profile_files, combined), LabelsY(combined))
                /\ weight_files' = <<>>        \* temp_dir is emptied
                /\ profiles' = <<>>
       ELSE \* the read of line 143 or the makedirs of line 155 raises: the
            \* except of line 167, before anything is written or removed
            /\ result' = NoneNone
            /\ UNCHANGED <<output_csv, weight_files, profiles>>
    /\ UNCHANGED <<call, bim_exists, fam_exists, bim_data, fam_data, pgs_files, raw,
                   output_csv_path, output_dir, i,
                   snps, pos_dict, profile_files, snp_list, log>>

(* extract_pgs_snps_to_dataset, the whole function *)
Extract ==
    /\ call = "extract_pgs_snps_to_dataset" /\ pc = "start"
    /\ \E rc_extract \in {0, 1}, rc_recode \in {0, 1} :
          LET f == pgs_files[1]
              r == ExtractPgsSnps(f, output_dir, bim_exists, bim_data, fam_exists, fam_data,
                                  raw, rc_extract, rc_recode)
          IN  /\ log' = Append(log, [name |-> f.name, outcome |-> r.result.kind,
                                     rsID |-> r.rsID, coverage |-> <<>>,
                                     returncodes |-> <<rc_extract, rc_recode>>])
              /\ snp_list' = r.snp_list
              /\ output_csv' = r.csv
              /\ result' = r.result
              /\ pc' = IF r.result = Raised THEN "raised" ELSE "done"
    /\ UNCHANGED <<call, bim_exists, fam_exists, bim_data, fam_data, pgs_files, raw,
                   output_csv_path, output_dir, i,
                   snps, pos_dict, profile_files, weight_files, profiles>>

Next == LoadPanel \/ ProcessDefinition \/ NoProfiles \/ Aggregate \/ Extract

Spec == Init /\ [][Next]_vars

---------------------------------------------------------------------------
(* Properties *)

Calculating == call = "calculate_pgs"
Extracting  == call = "extract_pgs_snps_to_dataset"
Written     == output_csv # <<>>

\* the canonical identifiers of a scoring file against the panel on disk
CanonicalIds(f) == NormalizedRsID(f.columns, f.rows, PosDict(bim_data))

\* a scoring file that cannot be scored, read off the input alone
FailsToScore(f) ==
    \/ ~f.readable
    \/ "rsID" \notin f.columns /\ ~({"chr_name", "chr_position"} \subseteq f.columns)
    \/ ~({"effect_allele", "effect_weight"} \subseteq f.columns)
    \/ f.rows = <<>>
    \/ \A k \in DOMAIN f.rows : CanonicalIds(f)[k] \notin Snps(bim_data)
    \/ f.returncode # 0

\* C1: a scoring file that fails (no identifier scheme, a missing weight
\* column, no rows, no overlap with the panel, a non-zero exit of the scorer,
\* any exception) never stops the loop: the files are processed one by one in
\* order, all of them by the time the loop is left, a later file that can be
\* scored is collected, and a failing file gives no column to the dataset.
C1_FailureIsIsolated ==
    Calculating /\ bim_exists =>
        /\ Len(log) <= Len(pgs_files)
        /\ \A j \in DOMAIN log : log[j].name = pgs_files[j].name
        /\ pc = "loop" => i = Len(log) + 1
        /\ pc = "done" => Len(log) = Len(pgs_files)
        /\ \A j \in DOMAIN log :
              IF FailsToScore(pgs_files[j])
              THEN /\ pgs_files[j].name \notin Range(profile_files)
                   /\ pgs_files[j].name \notin Range(result.X.columns)
                   /\ Written => pgs_files[j].name \notin Range(output_csv[1].columns)
              ELSE pgs_files[j].name \in Range(profile_files)

C1_Witness ==
    /\ Calculating /\ pc = "done" /\ Written
    /\ \E j, k \in DOMAIN pgs_files :
          /\ j < k
          /\ FailsToScore(pgs_files[j])
          /\ pgs_files[k].name \in Range(output_csv[1].columns)

\* C2: when no scoring file produced a usable score table, the run ends
\* after the loop with the result (None, None) and no output file.
C2_NoScorableDefinitions ==
    Calculating /\ pc = "done" /\ (\A j \in DOMAIN pgs_files : FailsToScore(pgs_files[j]))
        => result = NoneNone /\ ~Written

C2_Witness ==
    /\ Calculating /\ pc = "done" /\ result = NoneNone /\ ~Written
    /\ Len(pgs_files) >= 2
    /\ \A j \in DOMAIN pgs_files : FailsToScore(pgs_files[j])
    /\ \E j \in DOMAIN log : log[j].outcome = "NoOverlap"
    /\ \E j \in DOMAIN log : log[j].outcome = "ExternalScorerFailure"

\* the table plink returned for a scoring file, by the file's name
TableOf(name) == (CHOOSE f \in Range(pgs_files) : f.name = name).profile
KeyOf(row) == <<row.FID, row.IID>>
Keys(table) == [j \in DOMAIN table |-> KeyOf(table[j])]

\* C4 as claimed: a dataset has as many rows as the pedigree has samples.
C4_RowCountIsPedigreeCount ==
    Calculating /\ pc = "done" /\ Written => Len(output_csv[1].rows) = Len(fam_data)

\* C4 as amended: a dataset has at least as many rows as the first score
\* table collected, however many scoring files were dropped: the left join
\* on (FID, IID) drops no row.  When no two pedigree rows share a SampleKey it
\* adds none either: the dataset then has exactly the rows of that table, in
\* its order.
C4_RowCountIsBaseTableCount ==
    Calculating /\ pc = "done" /\ Written =>
        LET rows == output_csv[1].rows
            base == TableOf(profile_files[1])
        IN  /\ Len(rows) >= Len(base)
            /\ Len(result.y) = Len(rows) /\ Len(result.X.rows) = Len(rows)
            /\ \A j \in DOMAIN base : \E r \in DOMAIN rows : KeyOf(rows[r]) = KeyOf(base[j])
            /\ Distinct(Keys(fam_data)) => Keys(rows) = Keys(base)

C4_Witness ==
    /\ Calculating /\ pc = "done" /\ Written
    /\ \E j \in DOMAIN log : log[j].outcome # "Scored"
    /\ Distinct(Keys(fam_data))
    /\ Len(output_csv[1].rows) = Len(TableOf(profile_files[1]))
    /\ Len(output_csv[1].rows) # Len(fam_data)
    /\ \E r \in DOMAIN output_csv[1].rows : output_csv[1].rows[r].y = NaN

\* the rows of a scoring file whose canonical identifier is in the panel, in
\* the file's order, as (identifier, effect allele, effect weight)
RECURSIVE MatchedFrom(_, _, _)
MatchedFrom(f, ids, k) ==
    IF k > Len(f.rows) THEN <<>>
    ELSE (IF ids[k] \in Snps(bim_data)
          THEN <<(<<ids[k], f.rows[k].effect_allele, f.rows[k].effect_weight>>)>>
          ELSE <<>>) \o MatchedFrom(f, ids, k + 1)

\* C10: the weight table of a scoring file with at least one matched variant
\* is the subsequence of the file's rows whose canonical identifier is in the
\* panel, as (identifier, effect allele, effect weight): source order, rows
\* sharing an identifier all kept, no more rows than the file has, every
\* identifier in the panel.  It is on disk from the file's iteration until the
\* scratch directory is emptied.
C10_WeightTable ==
    Calculating =>
        /\ \A j \in DOMAIN log :
              LET f == pgs_files[j]
              IN  /\ f.name \in DOMAIN weight_files =>
                        LET w == weight_files[f.name]
                        IN  /\ w = MatchedFrom(f, CanonicalIds(f), 1)
                            /\ w # <<>>
                            /\ Len(w) <= Len(f.rows)
                            /\ \A k \in DOMAIN w : w[k][1] \in Snps(bim_data)
                  /\ (/\ f.readable
                      /\ {"effect_allele", "effect_weight"} \subseteq f.columns
                      /\ "rsID" \in f.columns \/ {"chr_name", "chr_position"} \subseteq f.columns
                      /\ \E k \in DOMAIN f.rows : CanonicalIds(f)[k] \in Snps(bim_data)
                      /\ ~(pc = "done" /\ Written))
                     => f.name \in DOMAIN weight_files
        /\ \A name \in DOMAIN weight_files : \E j \in DOMAIN log : log[j].name = name

C10_Witness ==
    /\ Calculating
    /\ \E name \in DOMAIN weight_files :
          LET w == weight_files[name]
          IN  /\ Len(w) = 2 /\ w[1][1] = w[2][1] /\ w[1][3] # w[2][3]
              /\ \E j \in DOMAIN pgs_files :
                    /\ pgs_files[j].name = name
                    /\ "rsID" \notin pgs_files[j].columns

\* C3: the dataset's samples are those of the first score table collected,
\* in its order; a later table's score is on the row of its own SampleKey;
\* a later table holding a SampleKey the first table lacks gives no column,
\* and the other columns are kept.
C3_AlignedBySampleKey ==
    Calculating /\ pc = "done" /\ Written /\ Distinct(Keys(fam_data)) =>
        LET rows == output_csv[1].rows
            base == TableOf(profile_files[1])
        IN  /\ Keys(rows) = Keys(base)
            /\ profile_files[1] \in Range(output_csv[1].columns)
            /\ \A n \in 2..Len(profile_files) :
                  LET name  == profile_files[n]
                      table == TableOf(name)
                  IN  IF \E j \in DOMAIN table : KeyOf(table[j]) \notin Range(Keys(base))
                      THEN name \notin Range(output_csv[1].columns)
                      ELSE /\ name \in Range(output_csv[1].columns)
                           /\ \A j \in DOMAIN table : \A r \in DOMAIN rows :
                                 KeyOf(rows[r]) = KeyOf(table[j])
                                    => rows[r].scores[name] = table[j].SCORE

\* C5: the coverage printed for a scoring file with rows is between 0 and
\* 100, and is 100 exactly when every row's canonical identifier is in the
\* panel, rows that share an identifier included.
C5_CoveragePercent ==
    Calculating =>
        \A j \in DOMAIN log :
            log[j].coverage # <<>> =>
                /\ log[j].coverage[1] \in 0..10000
                /\ log[j].coverage[1] = 10000
                      <=> \A k \in DOMAIN pgs_files[j].rows : log[j].rsID[k] \in Snps(bim_data)

\* C6: in both functions, a row with a non-empty rsID has that rsID as its
\* canonical identifier; any other row with chromosome and position has the
\* panel's ID at "chr{chromosome}:{position}", or that string itself when the
\* panel has no variant there.
C6_CanonicalIdentifier ==
    \A j \in DOMAIN log :
        LET f == pgs_files[j]
        IN  log[j].rsID # <<>> =>
                \A k \in DOMAIN f.rows :
                    LET e       == f.rows[k]
                        has_rs  == "rsID" \in f.columns /\ e.rsID \notin {NaN, ""}
                        has_pos == {"chr_name", "chr_position"} \subseteq f.columns
                        locus   == PosId(e.chr_name, e.chr_position)
                        at      == {v \in DOMAIN bim_data :
                                      /\ ToString(bim_data[v].chr) = e.chr_name
                                      /\ ToString(bim_data[v].pos) = e.chr_position}
                    IN  /\ has_rs => log[j].rsID[k] = e.rsID
                        /\ ~has_rs /\ has_pos =>
                              IF at = {} THEN log[j].rsID[k] = locus
                              ELSE \E v \in at : log[j].rsID[k] = bim_data[v].rsID

\* the phenotype the pedigree gives a SampleKey, NaN when it has no such row
PhenotypeOf(key) ==
    IF \E p \in DOMAIN fam_data : KeyOf(fam_data[p]) = key
    THEN fam_data[CHOOSE p \in DOMAIN fam_data : KeyOf(fam_data[p]) = key].PHENOTYPE
    ELSE NaN

\* C7: with a pedigree of unique SampleKeys and the external tool succeeding,
\* the extraction returns one label per row of the dosage table: the
\* phenotype of the pedigree row with the same (FID, IID), NaN when there is
\* none.
C7_LabelsBySampleKey ==
    (/\ Extracting /\ pc = "done"
     /\ bim_exists /\ fam_exists /\ Distinct(Keys(fam_data))
     /\ pgs_files[1].readable
     /\ "rsID" \in pgs_files[1].columns
     /\ \E k \in DOMAIN pgs_files[1].rows : CanonicalIds(pgs_files[1])[k] \in Snps(bim_data)
     /\ raw # <<>>
     /\ log[1].returncodes = <<0, 0>>)
        => /\ result.kind = "Xy"
           /\ Len(result.y) = Len(raw)
           /\ \A r \in DOMAIN raw : result.y[r] = PhenotypeOf(KeyOf(raw[r]))

\* the whole of calculate_pgs on a folder listed in a given order: the
\* profiles the loop collects, and the dataset written (none: <<>>)
RECURSIVE CollectedFrom(_, _, _)
CollectedFrom(files, j, collected) ==
    IF j > Len(files) THEN collected
    ELSE CollectedFrom(files, j + 1,
            AppendProfile(collected, files[j].name,
                          ProcessFile(files[j], Snps(bim_data), PosDict(bim_data)).outcome))

DatasetOf(files) ==
    LET names  == CollectedFrom(files, 1, <<>>)
        tables == [n \in Range(names) |-> TableOf(n)]
    IN  IF names = <<>> \/ ~fam_exists \/ MakedirsRaises(Dirname(output_csv_path)) THEN <<>>
        ELSE <<FinalDataset(names, MergeLeft(Combined(names, tables), fam_data))>>

ScoreColumnsOf(written) == IF written = <<>> THEN {} ELSE Range(written[1].columns) \ {"FID", "IID", "y"}
ScoresAt(written, key, name) ==
    {written[1].rows[r].scores[name] :
        r \in {q \in DOMAIN written[1].rows : KeyOf(written[1].rows[q]) = key}}

\* the scorer returned, for every file it scored, a table of the same samples
SameSamplesScored ==
    \A f, g \in Range(pgs_files) :
        ~FailsToScore(f) /\ ~FailsToScore(g)
            => Range(Keys(f.profile)) = Range(Keys(g.profile))

\* C8: whatever the order the folder is listed in (the scorer returning the
\* same table for the same file, over the same samples), the dataset has the
\* same score columns and, for every SampleKey and column, the same scores.
C8_OrderIndependent ==
    Calculating /\ bim_exists /\ pc = "done" /\ SameSamplesScored =>
        \A p \in Permutations(DOMAIN pgs_files) :
            LET other == DatasetOf([j \in DOMAIN pgs_files |-> pgs_files[p[j]]])
            IN  /\ ScoreColumnsOf(other) = ScoreColumnsOf(output_csv)
                /\ \A key \in SampleKeys : \A name \in ScoreColumnsOf(output_csv) :
                      ScoresAt(other, key, name) = ScoresAt(output_csv, key, name)

\* C9: with the .bim or the .fam file missing, the run ends with the result
\* (None, None), raises nothing, and writes no output file.
C9_MissingReferenceFile ==
    Calculating /\ (~bim_exists \/ ~fam_exists) /\ pc \in {"done", "raised"}
        => result = NoneNone /\ ~Written


\* the stepwise run and the whole-function form agree
StepwiseIsWhole ==
    Calculating /\ bim_exists /\ pc = "done" => DatasetOf(pgs_files) = output_csv

====
